---- MODULE Spec2Model ----
(***************************************************************************)
(* A model of edgie's tiered file cache (common/filecache.go): the index   *)
(* of entries, the recency list, the two byte counters, the cache-wide     *)
(* mutex and the entry mutexes, with request goroutines running Read and   *)
(* Write and the ticker goroutine running evictMemory and evictDisk; and   *)
(* of the service around it (service/lib.go): Download through the cache,  *)
(* the staging directory and the bucket, Upload into the staging           *)
(* directory, and the sync worker that PUTs the staged files.              *)
(***************************************************************************)
EXTENDS Integers, Sequences, FiniteSets, TLC

(***************************************************************************)
(* Bounds of the model.                                                    *)
(***************************************************************************)
NumKeys == 2
NumThreads == 3
MaxLen == 2
MaxOps == 5
MaxConcurrentOps == 3
MaxScan == 1
\* The number of Downloads, Uploads and sweeps of the service's client, and the number
\* of PutObject and os.Remove calls that fail before they all succeed.
MaxServiceOps == 2
MaxFailures == 2
\* The number of calls and ticks of the one client whose sweeps meet files that cannot
\* be removed.
MaxSweepOps == 3

(***************************************************************************)
(* FileCacheConfig: the two byte budgets the cache is configured with.     *)
(***************************************************************************)
RAMBytesMax == 2
DiskBytesMax == 2

(***************************************************************************)
(* The scenario of five 300-byte files under budgets of 1024 and 4096.     *)
(***************************************************************************)
NumScenarioFiles == 5
ScenarioFileSize == 300
ScenarioRAMBytesMax == 1024
ScenarioDiskBytesMax == 4096

\* Keys are the file names the clients of the cache use; FileNames are all the names a
\* file can have (the scenario of five files uses names beyond Keys).
Keys == 1..NumKeys
ScenarioKeys == 1..NumScenarioFiles
FileNames == Keys \cup ScenarioKeys
Threads == 1..NumThreads
Ticker == 0
Free == -1

\* A file's content: a byte string of 1..MaxLen bytes; the bytes carry the length so
\* that two contents of different length share no prefix. What is not a content
\* (no file, a nil slice, a failing stream, an error returned) is a string of one
\* negative number.
Contents == {[i \in 1..n |-> n] : n \in 1..MaxLen}
Absent == <<-1>>
NoData == <<-2>>
ReadErr == <<-3>>

\* What a call returns to its caller.
None == <<-4>>
ErrNotExist == <<-5>>
IOError == <<-6>>
Ok == <<-7>>

\* os.Stat's error for a path that does not exist (a *PathError, not os.ErrNotExist),
\* and S3FileDownload's error.
PathErrNotExist == <<-8>>
S3Error == <<-9>>
Errors == {ErrNotExist, IOError, PathErrNotExist, S3Error}

\* A path is the sequence of its elements; an absolute path starts with Root. The
\* elements that are not file names: the name of the upload directory and "..".
Root == 0
UploadName == -1
DotDot == -2
\* The keys of the bucket: a file name, or a file name under the upload directory's name.
RemoteKeys == {<<k>> : k \in Keys} \cup {<<UploadName, k>> : k \in Keys}

\* Entry objects live on the heap; the index and the goroutines hold pointers to them.
\* An object no pointer reaches is garbage and is returned to its zero value.
NoEntry == 0
EntryIds == 1..(Cardinality(FileNames) + NumThreads)

VARIABLES
  disk,             \* the backing directory: Keys -> Contents or Absent
  index,            \* fc.index: Keys -> entry pointer or NoEntry
  entries,          \* heap of fileCacheEntry: Data, InMemory, Size, Mutex
  mutex,            \* fc.mutex: its holder, or Free
  mruList,          \* fc.mruList: front (most recent) first
  mruMap,           \* fc.mruMap: the keys that have a list element
  usedDiskBytes,
  usedMemoryBytes,
  cacheReadsRAM,    \* metric: reads served from memory
  cacheReadsDisk,   \* metric: reads served from disk
  pc,               \* where each goroutine stands
  key,              \* the filePath / fileName argument of the call in progress
  in,               \* Write's input stream: the content it yields, or ReadErr
  ent,              \* the entry pointer the call holds
  entrySizeStart,   \* Write's local
  last,             \* the call that returned last: its operation, arguments and result
  nops,             \* number of calls and ticks started
  lastTouch,        \* history: keys by their last successful Read or Write, latest first
  config,           \* fc.config: RAMBytesMax and DiskBytesMax
  undeletable,      \* the files of the backing directory that os.Remove fails on
  removeLog,        \* the parity of the number of "Error removing file" lines logged
  conf,             \* Service.Conf: UploadDir and CacheDir
  upload,           \* the staging directory Conf.UploadDir: name -> content or Absent
  s3,               \* the bucket: remote key -> content or Absent
  svc,              \* the Download or Upload frame of each request goroutine
  syncPc,           \* where the S3SyncForever goroutine stands
  srcPaths,         \* S3SyncOnce's local: the staged files the cycle listed
  srcIdx,           \* S3SyncOnce's loop position in srcPaths
  attempted,        \* history: the files whose PUT this cycle has issued
  put,              \* history: what this cycle has PUT successfully, per file
  failures          \* number of PutObject and os.Remove failures so far

\* The service's state apart from the request goroutines' frames.
serviceVars == <<conf, upload, s3, syncPc, srcPaths, srcIdx, attempted, put, failures>>

vars == <<disk, index, entries, mutex, mruList, mruMap, usedDiskBytes, usedMemoryBytes,
          cacheReadsRAM, cacheReadsDisk, pc, key, in, ent, entrySizeStart, last, nops,
          lastTouch, config, undeletable, removeLog, svc, serviceVars>>

ZeroEntry == [Data |-> NoData, InMemory |-> FALSE, Size |-> 0, Mutex |-> Free]

RECURSIVE SumOver(_, _)
SumOver(S, f) ==
  IF S = {} THEN 0
  ELSE LET x == CHOOSE y \in S : TRUE IN f[x] + SumOver(S \ {x}, f)

\* The position of the first occurrence of k in list s, 0 when absent.
RECURSIVE IndexOf(_, _)
IndexOf(s, k) ==
  IF s = <<>> THEN 0
  ELSE IF Head(s) = k THEN 1
  ELSE LET r == IndexOf(Tail(s), k) IN IF r = 0 THEN 0 ELSE r + 1

RemoveKey(s, k) == SelectSeq(s, LAMBDA x : x # k)

\* The garbage collector: an entry object neither the index nor a goroutine points to
\* is reclaimed; a later allocation finds it zeroed.
Reachable(idx, e) == {idx[k] : k \in FileNames} \cup {e[t] : t \in Threads}
Collect(es, idx, e) ==
  [i \in EntryIds |-> IF i \in Reachable(idx, e) THEN es[i] ELSE ZeroEntry]

\* &fileCacheEntry{}: a fresh object.
NewEntry == CHOOSE i \in EntryIds : i \notin Reachable(index, ent)

\* The front of the list, where the back is asked for.
Front(l) == l[1]

\* container/list.Back().
Back(l) == l[Len(l)]

\* threshold := (Max * 90) / 100
Threshold(max) == (max * 90) \div 100


\* filepath.Base of a scanned path <<directory, name>>: the last element.
Base(file) == file[2]

\* What doublestar.Glob and os.Stat hand to init: a list of distinct regular files,
\* each with its path and its size. The pattern is DirPath joined with "**/*" and is
\* matched inside os.DirFS(DirPath), so which files of the backing directory the scan
\* lists depends on the layout of the directory: any of them, or none. A file directly
\* in DirPath ("" directory) is a file that Read and Write address by its name, and
\* os.Stat gives its size; a file of a subdirectory has any size.
ScannedFiles ==
  {f \in [file : {"", "sub"} \X Keys, size : 1..MaxLen] :
     f.file[1] = "" => (disk[f.file[2]] # Absent /\ f.size = Len(disk[f.file[2]]))}
Scans ==
  {s \in UNION {[1..n -> ScannedFiles] : n \in 0..MaxScan} :
     \A i, j \in DOMAIN s : i # j => s[i].file # s[j].file}

\* The entry init stores for key k: the one of the last scanned file of that base name.
LastScanned(scan, k) ==
  LET is == {i \in DOMAIN scan : Base(scan[i].file) = k}
  IN  scan[CHOOSE i \in is : \A j \in is : j <= i]

\* fc.usedDiskBytes += entry.Size, once per scanned file.
ScanDiskBytes(scan) == SumOver(DOMAIN scan, [i \in DOMAIN scan |-> scan[i].size])

\* An updateMRU that leaves a key it finds in the map where it is in the list.
updateMRUNoMove(list, map, fileName) ==
  IF fileName \in map THEN list ELSE <<fileName>> \o list

\* updateMRU: MoveToFront when the key has an element, PushFront otherwise.
updateMRU(list, map, fileName) ==
  IF fileName \in map THEN <<fileName>> \o RemoveKey(list, fileName)
  ELSE <<fileName>> \o list

\* The history of touches, kept beside the program's state.
Touch(hist, k) == <<k>> \o RemoveKey(hist, k)

Running == pc[Ticker] \notin {"new", "failed"}

\* A request goroutine that runs no Download and no Upload.
NoFrame == [op |-> "none", err |-> None, tiers |-> <<>>, ret |-> "idle"]

\* NewFileCache: an empty index, an empty list, zero counters. No goroutine has
\* started anything: no call, no sweep and no sync cycle is in progress.
InitCache ==
  /\ index = [k \in FileNames |-> NoEntry]
  /\ entries = [i \in EntryIds |-> ZeroEntry]
  /\ mutex = Free
  /\ mruList = <<>>
  /\ mruMap = {}
  /\ usedDiskBytes = 0
  /\ usedMemoryBytes = 0
  /\ cacheReadsRAM = 0
  /\ cacheReadsDisk = 0
  /\ pc = [t \in Threads \cup {Ticker} |-> IF t = Ticker THEN "new" ELSE "idle"]
  /\ key = [t \in Threads |-> 0]
  /\ in = [t \in Threads |-> None]
  /\ ent = [t \in Threads |-> NoEntry]
  /\ entrySizeStart = [t \in Threads |-> 0]
  /\ last = [op |-> "none", key |-> 0, arg |-> None, val |-> None]
  /\ nops = 0
  /\ lastTouch = <<>>
  /\ svc = [t \in Threads |-> NoFrame]
  /\ syncPc = "sleep"
  /\ srcPaths = <<>>
  /\ srcIdx = 0
  /\ attempted = {}
  /\ put = [k \in Keys |-> Absent]
  /\ failures = 0

\* The directories a client of Keys can have left in the backing directory.
Disks == {d \in [FileNames -> Contents \cup {Absent}] : \A k \in FileNames \ Keys : d[k] = Absent}

\* The cache alone: any backing directory over Keys, the two budgets, and a service
\* that stages nothing and stores nothing.
Init ==
  /\ InitCache
  /\ disk \in Disks
  /\ config = [RAMBytesMax |-> RAMBytesMax, DiskBytesMax |-> DiskBytesMax]
  /\ undeletable = {}
  /\ removeLog = 0
  /\ conf = [UploadDir |-> <<Root, UploadName>>, CacheDir |-> <<>>]
  /\ upload = [k \in Keys |-> Absent]
  /\ s3 = [r \in RemoteKeys |-> Absent]

\* A call returns r: its locals die, and the entry object it pointed to is collected
\* when nothing else points to it.
\* When Download made the call, the goroutine goes on in Download with the error in
\* err and, on success, the entry pointer in fce (kept in ent).
Return(t, es, idx, call, r) ==
  LET fce == IF svc[t].op = "Download" /\ r \notin Errors THEN ent[t] ELSE NoEntry IN
  /\ pc' = [pc EXCEPT ![t] = svc[t].ret]
  /\ key' = [key EXCEPT ![t] = IF svc[t].op = "Download" THEN key[t] ELSE 0]
  /\ in' = [in EXCEPT ![t] = None]
  /\ ent' = [ent EXCEPT ![t] = fce]
  /\ entrySizeStart' = [entrySizeStart EXCEPT ![t] = 0]
  /\ last' = IF svc[t].op = "Download" THEN last ELSE [call EXCEPT !.val = r]
  /\ svc' = IF svc[t].op = "Download"
            THEN [svc EXCEPT ![t].err = IF r \in Errors THEN r ELSE Ok, ![t].ret = "idle"]
            ELSE svc
  /\ entries' = Collect(es, idx, [ent EXCEPT ![t] = fce])

ReadOf(filePath) == [op |-> "Read", key |-> filePath, arg |-> None, val |-> None]
WriteOf(fileName, stream) == [op |-> "Write", key |-> fileName, arg |-> stream, val |-> None]
Sweep == [op |-> "sweep", key |-> 0, arg |-> None, val |-> None]

(***************************************************************************)
(* FileCache.Start and FileCache.init: the startup scan, under fc.mutex.   *)
(* ok = FALSE is an os.Stat that fails after the files of scan were        *)
(* indexed: init returns the error and the cache is not started.           *)
(***************************************************************************)
init ==
  /\ pc[Ticker] = "new"
  /\ mutex = Free
  /\ \E scan \in Scans, ok \in BOOLEAN :
       /\ index' = [k \in FileNames |->
                      IF \E i \in DOMAIN scan : Base(scan[i].file) = k THEN k ELSE NoEntry]
       /\ entries' = [i \in EntryIds |->
                      IF i \in Keys /\ \E j \in DOMAIN scan : Base(scan[j].file) = i
                      THEN [Data |-> NoData, InMemory |-> FALSE,
                            Size |-> LastScanned(scan, i).size, Mutex |-> Free]
                      ELSE ZeroEntry]
       /\ usedDiskBytes' = usedDiskBytes + ScanDiskBytes(scan)
       /\ pc' = [pc EXCEPT ![Ticker] = IF ok THEN "idle" ELSE "failed"]
  /\ UNCHANGED <<disk, mutex, mruList, mruMap, usedMemoryBytes, cacheReadsRAM,
                 cacheReadsDisk, key, in, ent, entrySizeStart, last, svc, nops, lastTouch>>
  /\ UNCHANGED <<config, undeletable, removeLog, serviceVars>>

(***************************************************************************)
(* FileCache.Read                                                          *)
(***************************************************************************)
\* entry, ok := fc.index.Load(filePath); if !ok return os.ErrNotExist
ReadLoad(t, filePath) ==
  /\ Running /\ pc[t] = "idle"
  /\ nops' = nops + 1
  /\ IF index[filePath] = NoEntry
     THEN Return(t, entries, index, ReadOf(filePath), ErrNotExist)
     ELSE /\ pc' = [pc EXCEPT ![t] = "R_lock"]
          /\ key' = [key EXCEPT ![t] = filePath]
          /\ ent' = [ent EXCEPT ![t] = index[filePath]]
          /\ UNCHANGED <<entries, in, entrySizeStart, last, svc>>
  /\ UNCHANGED <<disk, index, mutex, mruList, mruMap, usedDiskBytes, usedMemoryBytes,
                 cacheReadsRAM, cacheReadsDisk, lastTouch>>
  /\ UNCHANGED <<config, undeletable, removeLog, serviceVars>>

\* A Read that skips the residency test and always goes to the disk.
ReadAlwaysFromDisk(entry) == TRUE

\* if !entry.InMemory
ReadFromDisk(entry) == ~entry.InMemory

\* entry.Mutex.Lock(); if !entry.InMemory { cacheReadsDisk.Inc() ... } else
\* { cacheReadsRAM.Inc() ... }
ReadLockEntry(t) ==
  /\ pc[t] = "R_lock"
  /\ entries[ent[t]].Mutex = Free
  /\ entries' = [entries EXCEPT ![ent[t]].Mutex = t]
  /\ IF ReadFromDisk(entries[ent[t]])
     THEN /\ cacheReadsDisk' = cacheReadsDisk + 1
          /\ pc' = [pc EXCEPT ![t] = "R_io"]
          /\ UNCHANGED cacheReadsRAM
     ELSE /\ cacheReadsRAM' = cacheReadsRAM + 1
          /\ pc' = [pc EXCEPT ![t] = "R_hit"]
          /\ UNCHANGED cacheReadsDisk
  /\ UNCHANGED <<disk, index, mutex, mruList, mruMap, usedDiskBytes, usedMemoryBytes,
                 key, in, ent, entrySizeStart, last, svc, nops, lastTouch>>
  /\ UNCHANGED <<config, undeletable, removeLog, serviceVars>>

\* A Read that keeps the data and forgets to mark the entry InMemory.
ReadEntryNotMarked(entry, data) == [entry EXCEPT !.Data = data]

\* entry.Data = data; entry.InMemory = true
ReadEntry(entry, data) == [entry EXCEPT !.Data = data, !.InMemory = TRUE]

\* An os.ReadFile that hands back what it finds, file or no file, with a nil error.
ReadFileNeverFails(file) == FALSE

\* data, err := os.ReadFile(...); err != nil: there is no file to read.
ReadFileFails(file) == file = Absent

\* data, err := os.ReadFile(...); if err != nil return nil, err (the deferred Unlock
\* runs); entry.Data = data; entry.InMemory = true
ReadFile(t) ==
  /\ pc[t] = "R_io"
  /\ IF ReadFileFails(disk[key[t]])
     THEN /\ Return(t, [entries EXCEPT ![ent[t]].Mutex = Free], index, ReadOf(key[t]), IOError)
     ELSE /\ entries' = [entries EXCEPT ![ent[t]] = ReadEntry(@, disk[key[t]])]
          /\ pc' = [pc EXCEPT ![t] = "R_miss"]
          /\ UNCHANGED <<key, in, ent, entrySizeStart, last, svc>>
  /\ UNCHANGED <<disk, index, mutex, mruList, mruMap, usedDiskBytes, usedMemoryBytes,
                 cacheReadsRAM, cacheReadsDisk, nops, lastTouch>>
  /\ UNCHANGED <<config, undeletable, removeLog, serviceVars>>

\* fc.usedMemoryBytes += int64(len(data))
ReadUsedMemory(used, data) == used + Len(data)

\* fc.mutex.Lock(); fc.usedMemoryBytes += len(data); fc.updateMRU(filePath);
\* fc.mutex.Unlock(); return bytes.NewReader(entry.Data) (the deferred Unlock runs)
ReadMiss(t) ==
  /\ pc[t] = "R_miss"
  /\ mutex = Free
  /\ usedMemoryBytes' = ReadUsedMemory(usedMemoryBytes, entries[ent[t]].Data)
  /\ mruList' = updateMRU(mruList, mruMap, key[t])
  /\ mruMap' = mruMap \cup {key[t]}
  /\ lastTouch' = Touch(lastTouch, key[t])
  /\ Return(t, [entries EXCEPT ![ent[t]].Mutex = Free], index, ReadOf(key[t]),
            entries[ent[t]].Data)
  /\ UNCHANGED <<disk, index, mutex, usedDiskBytes, cacheReadsRAM, cacheReadsDisk, nops>>
  /\ UNCHANGED <<config, undeletable, removeLog, serviceVars>>

\* fc.mutex.Lock(); fc.updateMRU(filePath); fc.mutex.Unlock(); return
\* bytes.NewReader(entry.Data) (the deferred Unlock runs)
ReadHit(t) ==
  /\ pc[t] = "R_hit"
  /\ mutex = Free
  /\ mruList' = updateMRU(mruList, mruMap, key[t])
  /\ mruMap' = mruMap \cup {key[t]}
  /\ lastTouch' = Touch(lastTouch, key[t])
  /\ Return(t, [entries EXCEPT ![ent[t]].Mutex = Free], index, ReadOf(key[t]),
            entries[ent[t]].Data)
  /\ UNCHANGED <<disk, index, mutex, usedDiskBytes, usedMemoryBytes, cacheReadsRAM,
                 cacheReadsDisk, nops>>
  /\ UNCHANGED <<config, undeletable, removeLog, serviceVars>>

(***************************************************************************)
(* FileCache.Write                                                         *)
(***************************************************************************)
\* The call: cacheWrites.Inc(), then the goroutine is at fc.mutex.Lock().
WriteCall(t, fileName, stream) ==
  /\ Running /\ pc[t] = "idle"
  /\ nops' = nops + 1
  /\ pc' = [pc EXCEPT ![t] = "W_lock"]
  /\ key' = [key EXCEPT ![t] = fileName]
  /\ in' = [in EXCEPT ![t] = stream]
  /\ UNCHANGED <<disk, index, entries, mutex, mruList, mruMap, usedDiskBytes,
                 usedMemoryBytes, cacheReadsRAM, cacheReadsDisk, ent, entrySizeStart,
                 last, svc, lastTouch>>
  /\ UNCHANGED <<config, undeletable, removeLog, serviceVars>>

\* fc.mutex.Lock(); entry, ok := fc.index.Load(fileName); if !ok { entry =
\* &fileCacheEntry{}; fc.index.Store(fileName, entry) } else { entrySizeStart =
\* entry.Size }. The goroutine now holds fc.mutex and is at entry.Mutex.Lock().
WriteGetOrCreate(t) ==
  /\ pc[t] = "W_lock"
  /\ mutex = Free
  /\ mutex' = t
  /\ IF index[key[t]] = NoEntry
     THEN /\ index' = [index EXCEPT ![key[t]] = NewEntry]
          /\ ent' = [ent EXCEPT ![t] = NewEntry]
          /\ UNCHANGED entrySizeStart
     ELSE /\ ent' = [ent EXCEPT ![t] = index[key[t]]]
          /\ entrySizeStart' = [entrySizeStart EXCEPT ![t] = entries[index[key[t]]].Size]
          /\ UNCHANGED index
  /\ pc' = [pc EXCEPT ![t] = "W_lockEntry"]
  /\ UNCHANGED <<disk, entries, mruList, mruMap, usedDiskBytes, usedMemoryBytes,
                 cacheReadsRAM, cacheReadsDisk, key, in, last, svc, nops, lastTouch>>
  /\ UNCHANGED <<config, undeletable, removeLog, serviceVars>>

\* entry.Mutex.Lock(); defer entry.Mutex.Unlock(); fc.mutex.Unlock()
WriteLockEntry(t) ==
  /\ pc[t] = "W_lockEntry"
  /\ entries[ent[t]].Mutex = Free
  /\ entries' = [entries EXCEPT ![ent[t]].Mutex = t]
  /\ mutex' = Free
  /\ pc' = [pc EXCEPT ![t] = "W_io"]
  /\ UNCHANGED <<disk, index, mruList, mruMap, usedDiskBytes, usedMemoryBytes,
                 cacheReadsRAM, cacheReadsDisk, key, in, ent, entrySizeStart, last, svc, nops,
                 lastTouch>>
  /\ UNCHANGED <<config, undeletable, removeLog, serviceVars>>

\* A Write that keeps the data and forgets to set the entry's Size.
WriteEntrySizeKept(entry, data) == [entry EXCEPT !.Data = data]

\* entry.Data = data; entry.Size = int64(len(data))
WriteEntry(entry, data) == [entry EXCEPT !.Data = data, !.Size = Len(data)]

\* data, err := io.ReadAll(in); if err != nil return err; if err := os.WriteFile(...);
\* err != nil return err; entry.Data = data; entry.Size = int64(len(data)).
\* ok = FALSE is an os.WriteFile that fails to open the file, which stays as it was.
WriteFile(t) ==
  /\ pc[t] = "W_io"
  /\ \E ok \in BOOLEAN :
       IF in[t] = ReadErr \/ ~ok
       THEN /\ Return(t, [entries EXCEPT ![ent[t]].Mutex = Free], index,
                      WriteOf(key[t], in[t]), IOError)
            /\ UNCHANGED disk
       ELSE /\ disk' = [disk EXCEPT ![key[t]] = in[t]]
            /\ entries' = [entries EXCEPT ![ent[t]] = WriteEntry(@, in[t])]
            /\ pc' = [pc EXCEPT ![t] = "W_inMemory"]
            /\ UNCHANGED <<key, in, ent, entrySizeStart, last, svc>>
  /\ UNCHANGED <<index, mutex, mruList, mruMap, usedDiskBytes, usedMemoryBytes,
                 cacheReadsRAM, cacheReadsDisk, nops, lastTouch>>
  /\ UNCHANGED <<config, undeletable, removeLog, serviceVars>>

\* entry.InMemory = true
WriteInMemory(t) ==
  /\ pc[t] = "W_inMemory"
  /\ entries' = [entries EXCEPT ![ent[t]].InMemory = TRUE]
  /\ pc' = [pc EXCEPT ![t] = "W_stats"]
  /\ UNCHANGED <<disk, index, mutex, mruList, mruMap, usedDiskBytes, usedMemoryBytes,
                 cacheReadsRAM, cacheReadsDisk, key, in, ent, entrySizeStart, last, svc, nops,
                 lastTouch>>
  /\ UNCHANGED <<config, undeletable, removeLog, serviceVars>>

\* fc.usedMemoryBytes += entry.Size; fc.usedMemoryBytes -= entrySizeStart
WriteUsedMemory(used, size, sizeStart) == used + size - sizeStart

\* Write leaves fc.usedDiskBytes as it is.
WriteUsedDisk(used, size, sizeStart) == used

\* fc.mutex.Lock(); the two counter updates; fc.updateMRU(fileName); fc.mutex.Unlock();
\* return nil (the deferred Unlock runs)
WriteStats(t) ==
  /\ pc[t] = "W_stats"
  /\ mutex = Free
  /\ usedMemoryBytes' =
       WriteUsedMemory(usedMemoryBytes, entries[ent[t]].Size, entrySizeStart[t])
  /\ usedDiskBytes' =
       WriteUsedDisk(usedDiskBytes, entries[ent[t]].Size, entrySizeStart[t])
  /\ mruList' = updateMRU(mruList, mruMap, key[t])
  /\ mruMap' = mruMap \cup {key[t]}
  /\ lastTouch' = Touch(lastTouch, key[t])
  /\ Return(t, [entries EXCEPT ![ent[t]].Mutex = Free], index, WriteOf(key[t], in[t]), Ok)
  /\ UNCHANGED <<disk, index, mutex, cacheReadsRAM, cacheReadsDisk, nops>>
  /\ UNCHANGED <<config, undeletable, removeLog, serviceVars>>

(***************************************************************************)
(* The ticker goroutine of FileCache.Start: evictMemory, then evictDisk.   *)
(***************************************************************************)
\* A tick arrives: evictMemory is called and is at fc.mutex.Lock().
Tick ==
  /\ pc[Ticker] = "idle"
  /\ nops' = nops + 1
  /\ pc' = [pc EXCEPT ![Ticker] = "EM_lock"]
  /\ UNCHANGED <<disk, index, entries, mutex, mruList, mruMap, usedDiskBytes,
                 usedMemoryBytes, cacheReadsRAM, cacheReadsDisk, key, in, ent,
                 entrySizeStart, last, svc, lastTouch>>
  /\ UNCHANGED <<config, undeletable, removeLog, serviceVars>>

\* fc.mutex.Lock(); defer fc.mutex.Unlock()
EvictMemoryLock ==
  /\ pc[Ticker] = "EM_lock"
  /\ mutex = Free
  /\ mutex' = Ticker
  /\ pc' = [pc EXCEPT ![Ticker] = "EM_loop"]
  /\ UNCHANGED <<disk, index, entries, mruList, mruMap, usedDiskBytes, usedMemoryBytes,
                 cacheReadsRAM, cacheReadsDisk, key, in, ent, entrySizeStart, last, svc, nops,
                 lastTouch>>
  /\ UNCHANGED <<config, undeletable, removeLog, serviceVars>>

\* for fc.usedMemoryBytes > threshold && fc.mruList.Len() > 0
EvictMemoryGoesOn == usedMemoryBytes > Threshold(config.RAMBytesMax) /\ Len(mruList) > 0

\* One pass of the loop head: oldest := fc.mruList.Back(); if entry, ok :=
\* fc.index.Load(fileName); ok && entry.InMemory, the goroutine goes to
\* entry.Mutex.Lock(); otherwise the key leaves the list and the map. When the loop
\* condition fails, evictMemory returns and evictDisk is called.
EvictMemoryLoop ==
  /\ pc[Ticker] = "EM_loop"
  /\ IF EvictMemoryGoesOn
     THEN LET fileName == Back(mruList) IN
          IF index[fileName] # NoEntry /\ entries[index[fileName]].InMemory
          THEN /\ pc' = [pc EXCEPT ![Ticker] = "EM_lockEntry"]
               /\ UNCHANGED <<mutex, mruList, mruMap>>
          ELSE /\ mruList' = RemoveKey(mruList, fileName)
               /\ mruMap' = mruMap \ {fileName}
               /\ UNCHANGED <<mutex, pc>>
     ELSE /\ mutex' = Free
          /\ pc' = [pc EXCEPT ![Ticker] = "ED_lock"]
          /\ UNCHANGED <<mruList, mruMap>>
  /\ UNCHANGED <<disk, index, entries, usedDiskBytes, usedMemoryBytes, cacheReadsRAM,
                 cacheReadsDisk, key, in, ent, entrySizeStart, last, svc, nops, lastTouch>>
  /\ UNCHANGED <<config, undeletable, removeLog, serviceVars>>

\* entry.Mutex.Lock(); if entry.InMemory { entry.Data = nil; entry.InMemory = false;
\* fc.usedMemoryBytes -= entry.Size }; entry.Mutex.Unlock(); fc.mruList.Remove(oldest);
\* delete(fc.mruMap, fileName)
EvictMemoryEntry ==
  /\ pc[Ticker] = "EM_lockEntry"
  /\ LET fileName == Back(mruList)
         e == index[fileName]
     IN  /\ entries[e].Mutex = Free
         /\ IF entries[e].InMemory
            THEN /\ entries' = [entries EXCEPT ![e].Data = NoData, ![e].InMemory = FALSE]
                 /\ usedMemoryBytes' = usedMemoryBytes - entries[e].Size
            ELSE UNCHANGED <<entries, usedMemoryBytes>>
         /\ mruList' = RemoveKey(mruList, fileName)
         /\ mruMap' = mruMap \ {fileName}
  /\ pc' = [pc EXCEPT ![Ticker] = "EM_loop"]
  /\ UNCHANGED <<disk, index, mutex, usedDiskBytes, cacheReadsRAM, cacheReadsDisk, key,
                 in, ent, entrySizeStart, last, svc, nops, lastTouch>>
  /\ UNCHANGED <<config, undeletable, removeLog, serviceVars>>

\* fc.mutex.Lock(); defer fc.mutex.Unlock()
EvictDiskLock ==
  /\ pc[Ticker] = "ED_lock"
  /\ mutex = Free
  /\ mutex' = Ticker
  /\ pc' = [pc EXCEPT ![Ticker] = "ED_loop"]
  /\ UNCHANGED <<disk, index, entries, mruList, mruMap, usedDiskBytes, usedMemoryBytes,
                 cacheReadsRAM, cacheReadsDisk, key, in, ent, entrySizeStart, last, svc, nops,
                 lastTouch>>
  /\ UNCHANGED <<config, undeletable, removeLog, serviceVars>>

\* for fc.usedDiskBytes > threshold && fc.mruList.Len() > 0
EvictDiskGoesOn == usedDiskBytes > Threshold(config.DiskBytesMax) /\ Len(mruList) > 0

\* if err := os.Remove(fullPath); err != nil { ...; continue }
RemoveFails(fileName) == disk[fileName] # Absent /\ fileName \in undeletable

\* One pass of the loop: the oldest key's file is removed when os.Stat finds it; when
\* os.Remove fails, the error is logged and continue goes back to the loop condition
\* with the cache as it was.
\* Otherwise the key's index entry, when there is one, is deleted and its size leaves
\* the counters (usedMemoryBytes only if entry.InMemory); the key leaves the list and
\* the map. When the loop condition fails, evictDisk returns and the goroutine waits
\* for the next tick.
EvictDiskLoop ==
  /\ pc[Ticker] = "ED_loop"
  /\ IF EvictDiskGoesOn
     THEN LET fileName == Back(mruList)
              e == index[fileName]
          IN  IF RemoveFails(fileName)
              THEN /\ removeLog' = 1 - removeLog
                   /\ UNCHANGED <<disk, index, entries, mutex, mruList, mruMap,
                                  usedDiskBytes, usedMemoryBytes, pc, last>>
              ELSE /\ disk' = [disk EXCEPT ![fileName] = Absent]
                   /\ IF e # NoEntry
                      THEN /\ usedMemoryBytes' = IF entries[e].InMemory
                                                 THEN usedMemoryBytes - entries[e].Size
                                                 ELSE usedMemoryBytes
                           /\ usedDiskBytes' = usedDiskBytes - entries[e].Size
                           /\ index' = [index EXCEPT ![fileName] = NoEntry]
                           /\ entries' = Collect(entries, [index EXCEPT ![fileName] = NoEntry],
                                                 ent)
                      ELSE UNCHANGED <<usedMemoryBytes, usedDiskBytes, index, entries>>
                   /\ mruList' = RemoveKey(mruList, fileName)
                   /\ mruMap' = mruMap \ {fileName}
                   /\ UNCHANGED <<mutex, pc, last, removeLog>>
     ELSE /\ mutex' = Free
          /\ pc' = [pc EXCEPT ![Ticker] = "idle"]
          /\ last' = Sweep
          /\ UNCHANGED <<disk, index, entries, mruList, mruMap, usedDiskBytes,
                         usedMemoryBytes, removeLog>>
  /\ UNCHANGED <<cacheReadsRAM, cacheReadsDisk, key, in, ent, entrySizeStart, nops,
                 lastTouch, svc>>
  /\ UNCHANGED <<config, undeletable, serviceVars>>

(***************************************************************************)
(* The service (service/lib.go): paths, the calls it records.              *)
(***************************************************************************)
\* filepath.Join(dir, name) and filepath.IsAbs.
Join(dir, name) == dir \o <<name>>
IsAbs(path) == path # <<>> /\ path[1] = Root

\* The length of the longest common prefix of two paths.
RECURSIVE CommonPrefix(_, _)
CommonPrefix(a, b) ==
  IF a = <<>> \/ b = <<>> \/ Head(a) # Head(b) THEN 0
  ELSE 1 + CommonPrefix(Tail(a), Tail(b))

\* filepath.Rel(basepath, targpath): an error when one path is absolute and the other
\* is not; otherwise ".." for every element of basepath beyond the common prefix,
\* then the rest of targpath.
RelError == <<-10>>
Rel(basepath, targpath) ==
  IF IsAbs(basepath) # IsAbs(targpath) THEN RelError
  ELSE LET c == CommonPrefix(basepath, targpath)
       IN  [i \in 1..(Len(basepath) - c) |-> DotDot] \o SubSeq(targpath, c + 1, Len(targpath))

\* What os.Create leaves: an empty file.
EmptyFile == <<>>

UploadOf(filePath, stream) == [op |-> "Upload", key |-> filePath, arg |-> stream, val |-> None]
DownloadOf(srcPath, tiers) == [op |-> "Download", key |-> srcPath, arg |-> tiers, val |-> None]
SyncOf == [op |-> "sync", key |-> 0, arg |-> None, val |-> None]

\* The tiers a Download has consulted, in the order it consulted them.
CacheTier == 1
UploadTier == 2
S3Tier == 3

\* Download or Upload returns r: the frame and the locals die.
ServiceReturn(t, call, r) ==
  /\ pc' = [pc EXCEPT ![t] = "idle"]
  /\ key' = [key EXCEPT ![t] = 0]
  /\ in' = [in EXCEPT ![t] = None]
  /\ ent' = [ent EXCEPT ![t] = NoEntry]
  /\ svc' = [svc EXCEPT ![t] = NoFrame]
  /\ last' = [call EXCEPT !.val = r]
  /\ entries' = Collect(entries, index, [ent EXCEPT ![t] = NoEntry])

(***************************************************************************)
(* Service.Upload                                                          *)
(***************************************************************************)
\* The call: dstPath is UploadDir joined with filePath.
Upload(t, filePath, stream) ==
  /\ Running /\ pc[t] = "idle"
  /\ nops' = nops + 1
  /\ pc' = [pc EXCEPT ![t] = "U_create"]
  /\ key' = [key EXCEPT ![t] = filePath]
  /\ in' = [in EXCEPT ![t] = stream]
  /\ svc' = [svc EXCEPT ![t].op = "Upload"]
  /\ UNCHANGED <<disk, index, entries, mutex, mruList, mruMap, usedDiskBytes,
                 usedMemoryBytes, cacheReadsRAM, cacheReadsDisk, ent, entrySizeStart,
                 last, lastTouch, config, undeletable, removeLog, serviceVars>>

\* An os.Create that opens an existing file without truncating it.
CreateNoTruncate(files, dstPath) ==
  IF files[dstPath] = Absent THEN [files EXCEPT ![dstPath] = EmptyFile] ELSE files

\* os.Create(dstPath): the file exists and is empty.
Create(files, dstPath) == [files EXCEPT ![dstPath] = EmptyFile]

\* io.Copy(dstW, srcR) into a file opened at offset 0: the bytes of the stream, then
\* what the file held beyond them.
Copy(file, data) == data \o SubSeq(file, Len(data) + 1, Len(file))

\* os.MkdirAll(dstDir); dstW, err := os.Create(dstPath). ok = FALSE is a failure of
\* one of the two: Upload returns the error.
UploadCreate(t) ==
  /\ pc[t] = "U_create"
  /\ \E ok \in BOOLEAN :
       IF ok
       THEN /\ upload' = Create(upload, key[t])
            /\ pc' = [pc EXCEPT ![t] = "U_copy"]
            /\ UNCHANGED <<entries, key, in, ent, last, svc>>
       ELSE /\ ServiceReturn(t, UploadOf(key[t], in[t]), IOError)
            /\ UNCHANGED upload
  /\ UNCHANGED <<disk, index, mutex, mruList, mruMap, usedDiskBytes, usedMemoryBytes,
                 cacheReadsRAM, cacheReadsDisk, entrySizeStart, nops, lastTouch,
                 config, undeletable, removeLog,
                 conf, s3, syncPc, srcPaths, srcIdx, attempted, put, failures>>

\* dstSize, err := io.Copy(dstW, srcR); the deferred Close; return. A stream that
\* fails leaves the file as os.Create left it; a file that was removed since os.Create
\* is written through its open descriptor and is gone when it is closed.
UploadCopy(t) ==
  /\ pc[t] = "U_copy"
  /\ IF in[t] = ReadErr
     THEN /\ ServiceReturn(t, UploadOf(key[t], in[t]), IOError)
          /\ UNCHANGED upload
     ELSE /\ upload' = IF upload[key[t]] = Absent THEN upload
                       ELSE [upload EXCEPT ![key[t]] = Copy(@, in[t])]
          /\ ServiceReturn(t, UploadOf(key[t], in[t]), Ok)
  /\ UNCHANGED <<disk, index, mutex, mruList, mruMap, usedDiskBytes, usedMemoryBytes,
                 cacheReadsRAM, cacheReadsDisk, entrySizeStart, nops, lastTouch,
                 config, undeletable, removeLog,
                 conf, s3, syncPc, srcPaths, srcIdx, attempted, put, failures>>

(***************************************************************************)
(* Service.Download                                                        *)
(***************************************************************************)
\* The call: srcPath = filepath.Clean(srcPath); the goroutine is at s.Cache.Get.
Download(t, srcPath) ==
  /\ Running /\ pc[t] = "idle"
  /\ nops' = nops + 1
  /\ pc' = [pc EXCEPT ![t] = "D_get"]
  /\ key' = [key EXCEPT ![t] = srcPath]
  /\ svc' = [svc EXCEPT ![t].op = "Download"]
  /\ UNCHANGED <<disk, index, entries, mutex, mruList, mruMap, usedDiskBytes,
                 usedMemoryBytes, cacheReadsRAM, cacheReadsDisk, in, ent, entrySizeStart,
                 last, lastTouch, config, undeletable, removeLog, serviceVars>>

\* fce, err = s.Cache.Get(srcPath): the cache's Read, which hands back the entry. A
\* path that is not in the index is os.ErrNotExist at once; otherwise Read's steps
\* run and Download goes on when they return.
Get(t) ==
  /\ pc[t] = "D_get"
  /\ IF index[key[t]] = NoEntry
     THEN /\ pc' = [pc EXCEPT ![t] = "D_upload"]
          /\ svc' = [svc EXCEPT ![t].err = ErrNotExist, ![t].tiers = <<CacheTier>>]
          /\ UNCHANGED ent
     ELSE /\ pc' = [pc EXCEPT ![t] = "R_lock"]
          /\ ent' = [ent EXCEPT ![t] = index[key[t]]]
          /\ svc' = [svc EXCEPT ![t].ret = "D_upload", ![t].tiers = <<CacheTier>>]
  /\ UNCHANGED <<disk, index, entries, mutex, mruList, mruMap, usedDiskBytes,
                 usedMemoryBytes, cacheReadsRAM, cacheReadsDisk, key, in, entrySizeStart,
                 last, nops, lastTouch, config, undeletable, removeLog, serviceVars>>

\* fce, err = s.Cache.Put(srcPath, stream): the cache's Write, which hands back the
\* entry. The goroutine is at Write's fc.mutex.Lock() and goes on at ret when Write
\* returns.
Put(t, stream, ret, tier) ==
  /\ pc' = [pc EXCEPT ![t] = "W_lock"]
  /\ in' = [in EXCEPT ![t] = stream]
  /\ svc' = [svc EXCEPT ![t].ret = ret, ![t].tiers = Append(@, tier)]

\* A test that takes every outcome of Get for a miss.
CacheMissedAlways(err) == TRUE

\* if err == os.ErrNotExist (after Get)
CacheMissed(err) == err = ErrNotExist

\* The upload folder: if _, err = os.Stat(uploadFilePath); err == nil { if data, err =
\* os.ReadFile(uploadFilePath); err == nil { fce, err = s.Cache.Put(srcPath, data) } }.
\* A file that is not staged leaves os.Stat's error in err; ok = FALSE is an
\* os.ReadFile that fails.
DownloadUpload(t) ==
  /\ pc[t] = "D_upload"
  /\ IF CacheMissed(svc[t].err)
     THEN IF upload[key[t]] = Absent
          THEN /\ pc' = [pc EXCEPT ![t] = "D_remote"]
               /\ svc' = [svc EXCEPT ![t].err = PathErrNotExist,
                                     ![t].tiers = Append(@, UploadTier)]
               /\ UNCHANGED in
          ELSE \E ok \in BOOLEAN :
                 IF ok
                 THEN Put(t, upload[key[t]], "D_remote", UploadTier)
                 ELSE /\ pc' = [pc EXCEPT ![t] = "D_remote"]
                      /\ svc' = [svc EXCEPT ![t].err = IOError,
                                            ![t].tiers = Append(@, UploadTier)]
                      /\ UNCHANGED in
     ELSE /\ pc' = [pc EXCEPT ![t] = "D_remote"]
          /\ UNCHANGED <<in, svc>>
  /\ UNCHANGED <<disk, index, entries, mutex, mruList, mruMap, usedDiskBytes,
                 usedMemoryBytes, cacheReadsRAM, cacheReadsDisk, key, ent, entrySizeStart,
                 last, nops, lastTouch, config, undeletable, removeLog, serviceVars>>

\* if err == os.ErrNotExist (after the upload folder)
StillMissing(err) == err = ErrNotExist

\* S3FileDownload(srcPath, bucket, client): GetObject with Key = path.
S3Key(path) == <<path>>

\* The bucket: if s3Reader, err = common.S3FileDownload(...); err == nil { fce, err =
\* s.Cache.Put(srcPath, s3Reader) }. ok = FALSE is a GetObject that fails although the
\* object is there; an object that is not there is an error too.
DownloadRemote(t) ==
  /\ pc[t] = "D_remote"
  /\ IF StillMissing(svc[t].err)
     THEN \E ok \in BOOLEAN :
            IF ok /\ s3[S3Key(key[t])] # Absent
            THEN Put(t, s3[S3Key(key[t])], "D_return", S3Tier)
            ELSE /\ pc' = [pc EXCEPT ![t] = "D_return"]
                 /\ svc' = [svc EXCEPT ![t].err = S3Error, ![t].tiers = Append(@, S3Tier)]
                 /\ UNCHANGED in
     ELSE /\ pc' = [pc EXCEPT ![t] = "D_return"]
          /\ UNCHANGED <<in, svc>>
  /\ UNCHANGED <<disk, index, entries, mutex, mruList, mruMap, usedDiskBytes,
                 usedMemoryBytes, cacheReadsRAM, cacheReadsDisk, key, ent, entrySizeStart,
                 last, nops, lastTouch, config, undeletable, removeLog, serviceVars>>

\* if err != nil { return nil, err }; return bytes.NewReader(fce.Data), nil. The entry
\* is read without its lock.
DownloadReturn(t) ==
  /\ pc[t] = "D_return"
  /\ IF svc[t].err # Ok
     THEN ServiceReturn(t, DownloadOf(key[t], svc[t].tiers), svc[t].err)
     ELSE ServiceReturn(t, DownloadOf(key[t], svc[t].tiers), entries[ent[t]].Data)
  /\ UNCHANGED <<disk, index, mutex, mruList, mruMap, usedDiskBytes, usedMemoryBytes,
                 cacheReadsRAM, cacheReadsDisk, entrySizeStart, nops, lastTouch,
                 config, undeletable, removeLog,
                 serviceVars>>

(***************************************************************************)
(* Service.S3SyncForever and Service.S3SyncOnce                            *)
(***************************************************************************)
\* The elements of a set of names in ascending order.
RECURSIVE Sorted(_)
Sorted(S) ==
  IF S = {} THEN <<>>
  ELSE LET x == CHOOSE y \in S : \A z \in S : y <= z IN <<x>> \o Sorted(S \ {x})

\* filepath.Glob(filepath.Join(UploadDir, "**")): the staged files, sorted by name.
Glob(files) == Sorted({k \in DOMAIN files : files[k] # Absent})

\* S3SyncOnce returns err to S3SyncForever, which logs it and sleeps again.
SyncReturn(err) ==
  /\ syncPc' = "sleep"
  /\ last' = [SyncOf EXCEPT !.val = err]

\* time.Sleep is over and S3SyncOnce is called: the staged files are listed; with
\* none the cycle returns nil.
SyncWake ==
  /\ Running /\ syncPc = "sleep"
  /\ srcPaths' = Glob(upload)
  /\ srcIdx' = 1
  /\ attempted' = {}
  /\ put' = [k \in Keys |-> Absent]
  /\ IF Glob(upload) = <<>>
     THEN SyncReturn(Ok)
     ELSE syncPc' = "put" /\ UNCHANGED last
  /\ UNCHANGED <<disk, index, entries, mutex, mruList, mruMap, usedDiskBytes,
                 usedMemoryBytes, cacheReadsRAM, cacheReadsDisk, pc, key, in, ent,
                 entrySizeStart, nops, lastTouch,
                 config, undeletable, removeLog, svc, conf, upload, s3, failures>>

\* A cycle that goes on to the removal whatever S3FileUpload returned.
UploadFailedIgnored(err) == FALSE

\* if err = common.S3FileUpload(...); err != nil
UploadFailed(err) == err # Ok

\* The loop body up to the upload: dstPath, err := filepath.Rel(s.Conf.CacheDir,
\* srcPath), an error ends the cycle; S3FileUpload opens the file and PUTs what it
\* holds under dstPath, a failure ends the cycle. ok = FALSE is a PutObject that
\* fails; a file that is gone fails at os.Open.
SyncUpload ==
  /\ syncPc = "put"
  /\ LET srcName == srcPaths[srcIdx]
         dstPath == Rel(conf.CacheDir, Join(conf.UploadDir, srcName))
     IN  IF dstPath = RelError
         THEN /\ SyncReturn(IOError)
              /\ UNCHANGED <<s3, attempted, put, failures>>
         ELSE \E ok \in BOOLEAN :
                /\ ~ok => failures < MaxFailures
                /\ LET err == IF ok /\ upload[srcName] # Absent THEN Ok ELSE IOError IN
                   /\ attempted' = attempted \cup {srcName}
                   /\ IF err = Ok
                      THEN /\ s3' = [s3 EXCEPT ![dstPath] = upload[srcName]]
                           /\ put' = [put EXCEPT ![srcName] = upload[srcName]]
                           /\ UNCHANGED failures
                      ELSE /\ failures' = IF ok THEN failures ELSE failures + 1
                           /\ UNCHANGED <<s3, put>>
                   /\ IF UploadFailed(err)
                      THEN SyncReturn(err)
                      ELSE syncPc' = "remove" /\ UNCHANGED last
  /\ UNCHANGED <<disk, index, entries, mutex, mruList, mruMap, usedDiskBytes,
                 usedMemoryBytes, cacheReadsRAM, cacheReadsDisk, pc, key, in, ent,
                 entrySizeStart, nops, lastTouch,
                 config, undeletable, removeLog, svc, conf, upload, srcPaths,
                 srcIdx>>

\* err = os.Remove(srcPath), an error ends the cycle; then the next file, or return
\* nil after the last one. ok = FALSE is an os.Remove that fails on a file that is
\* there; a file that is gone fails too.
SyncRemove ==
  /\ syncPc = "remove"
  /\ LET srcName == srcPaths[srcIdx] IN
     \E ok \in BOOLEAN :
       /\ ~ok => failures < MaxFailures
       /\ IF ok /\ upload[srcName] # Absent
          THEN /\ upload' = [upload EXCEPT ![srcName] = Absent]
               /\ UNCHANGED failures
               /\ IF srcIdx = Len(srcPaths)
                  THEN SyncReturn(Ok) /\ UNCHANGED srcIdx
                  ELSE /\ srcIdx' = srcIdx + 1
                       /\ syncPc' = "put"
                       /\ UNCHANGED last
          ELSE /\ failures' = IF ok THEN failures ELSE failures + 1
               /\ SyncReturn(IOError)
               /\ UNCHANGED <<upload, srcIdx>>
  /\ UNCHANGED <<disk, index, entries, mutex, mruList, mruMap, usedDiskBytes,
                 usedMemoryBytes, cacheReadsRAM, cacheReadsDisk, pc, key, in, ent,
                 entrySizeStart, nops, lastTouch,
                 config, undeletable, removeLog, svc, conf, s3, srcPaths,
                 attempted, put>>

\* No call and no sweep is in progress.
Quiescent ==
  /\ \A t \in Threads : pc[t] = "idle"
  /\ pc[Ticker] \in {"new", "idle", "failed"}
  /\ syncPc = "sleep"

\* A goroutine of T starts a call, or a tick starts a sweep.
Call(T) ==
  \/ \E t \in T, k \in Keys : ReadLoad(t, k)
  \/ \E t \in T, k \in Keys, v \in Contents \cup {ReadErr} : WriteCall(t, k, v)
  \/ Tick

\* A goroutine takes the next step of what it is running.
Step ==
  \/ \E t \in Threads : ReadLockEntry(t)
  \/ \E t \in Threads : ReadFile(t)
  \/ \E t \in Threads : ReadMiss(t)
  \/ \E t \in Threads : ReadHit(t)
  \/ \E t \in Threads : WriteGetOrCreate(t)
  \/ \E t \in Threads : WriteLockEntry(t)
  \/ \E t \in Threads : WriteFile(t)
  \/ \E t \in Threads : WriteInMemory(t)
  \/ \E t \in Threads : WriteStats(t)
  \/ EvictMemoryLock
  \/ EvictMemoryLoop
  \/ EvictMemoryEntry
  \/ EvictDiskLock
  \/ EvictDiskLoop

\* The cache under concurrent requests: calls of all goroutines and the sweeps
\* interleave step by step.
Next ==
  \/ init
  \/ nops < MaxConcurrentOps /\ Call(Threads)
  \/ Step

Spec == Init /\ [][Next]_vars

\* The cache under concurrent readers only: no Write and no sweep runs.
NextReads ==
  \/ init
  \/ nops < MaxOps /\ \E t \in Threads, k \in Keys : ReadLoad(t, k)
  \/ \E t \in Threads : ReadLockEntry(t)
  \/ \E t \in Threads : ReadFile(t)
  \/ \E t \in Threads : ReadMiss(t)
  \/ \E t \in Threads : ReadHit(t)

SpecReads == Init /\ [][NextReads]_vars

\* The cache under one client: a call or a sweep starts only when the one before has
\* returned.
NextSeq ==
  \/ init
  \/ Quiescent /\ nops < MaxOps /\ Call({1})
  \/ Step

SpecSeq == Init /\ [][NextSeq]_vars

\* The cache under one client and a backing directory in which some files cannot be
\* removed (os.Remove fails on them every time).
InitSweep ==
  /\ InitCache
  /\ disk \in Disks
  /\ config = [RAMBytesMax |-> RAMBytesMax, DiskBytesMax |-> DiskBytesMax]
  /\ undeletable \in SUBSET Keys
  /\ removeLog = 0
  /\ conf = [UploadDir |-> <<Root, UploadName>>, CacheDir |-> <<>>]
  /\ upload = [k \in Keys |-> Absent]
  /\ s3 = [r \in RemoteKeys |-> Absent]

NextSweep ==
  \/ init
  \/ Quiescent /\ nops < MaxSweepOps /\ Call({1})
  \/ Step

SpecSweep == InitSweep /\ [][NextSweep]_vars

\* The ticker goroutine's steps: evictMemory, then evictDisk.
TickerNext ==
  \/ EvictMemoryLock
  \/ EvictMemoryLoop
  \/ EvictMemoryEntry
  \/ EvictDiskLock
  \/ EvictDiskLoop

\* The goroutines are scheduled: Start's init runs, and the ticker goroutine goes on
\* whenever it can take a step.
SpecSweepFair == SpecSweep /\ WF_vars(init) /\ WF_vars(TickerNext)

(***************************************************************************)
(* The specifications of the service.                                      *)
(***************************************************************************)
\* The default options: UploadDir is /var/edgie/cache/upload, and CmdExecute leaves
\* Conf.CacheDir empty.
DefaultConf == [UploadDir |-> <<Root, UploadName>>, CacheDir |-> <<>>]

\* What the service finds when it starts: a backing directory, a staging directory
\* with what an earlier run left in it, and a bucket.
InitService ==
  /\ InitCache
  /\ disk \in Disks
  /\ config = [RAMBytesMax |-> RAMBytesMax, DiskBytesMax |-> DiskBytesMax]
  /\ undeletable = {}
  /\ removeLog = 0
  /\ conf = DefaultConf
  /\ upload \in [Keys -> Contents \cup {Absent}]
  /\ s3 \in {r \in [RemoteKeys -> Contents \cup {Absent}] :
               \A k \in Keys : r[<<UploadName, k>>] = Absent}

\* A request goroutine starts a Download or an Upload, or a tick starts a sweep.
ServiceCall(T) ==
  \/ \E t \in T, k \in Keys : Download(t, k)
  \/ \E t \in T, k \in Keys, v \in Contents \cup {ReadErr} : Upload(t, k, v)
  \/ Tick

\* The service under one client, before any sync cycle runs: a Download, an Upload or
\* a sweep starts only when the one before has returned.
NextService ==
  \/ init
  \/ Quiescent /\ nops < MaxServiceOps /\ ServiceCall({1})
  \/ Step
  \/ \E t \in Threads : Get(t)
  \/ \E t \in Threads : DownloadUpload(t)
  \/ \E t \in Threads : DownloadRemote(t)
  \/ \E t \in Threads : DownloadReturn(t)
  \/ \E t \in Threads : UploadCreate(t)
  \/ \E t \in Threads : UploadCopy(t)

SpecService == InitService /\ [][NextService]_vars

\* What the sync worker finds: a staging directory with what an earlier run left in
\* it, an UploadDir that is the default or a relative path, an empty backing
\* directory and an empty bucket.
InitSync ==
  /\ InitCache
  /\ disk = [k \in FileNames |-> Absent]
  /\ config = [RAMBytesMax |-> RAMBytesMax, DiskBytesMax |-> DiskBytesMax]
  /\ undeletable = {}
  /\ removeLog = 0
  /\ conf \in [UploadDir : {<<Root, UploadName>>, <<UploadName>>}, CacheDir : {<<>>}]
  /\ upload \in [Keys -> Contents \cup {Absent}]
  /\ s3 = [r \in RemoteKeys |-> Absent]

\* A step of the S3SyncForever goroutine.
SyncNext == SyncWake \/ SyncUpload \/ SyncRemove

\* The sync worker beside one client that uploads: the cycles and the Uploads
\* interleave step by step.
NextSync ==
  \/ init
  \/ nops < MaxServiceOps /\ \E k \in Keys, v \in Contents \cup {ReadErr} : Upload(1, k, v)
  \/ \E t \in Threads : UploadCreate(t)
  \/ \E t \in Threads : UploadCopy(t)
  \/ SyncWake
  \/ SyncUpload
  \/ SyncRemove

SpecSync == InitSync /\ [][NextSync]_vars

\* The same, with the scheduler's guarantees: Service.Start runs to its end, and the
\* worker's loop goes on (it always wakes again, and a step of its cycle that can be
\* taken is taken).
SpecSyncFair == SpecSync /\ WF_vars(init) /\ WF_vars(SyncNext)

(***************************************************************************)
(* The scenario: five files written in order to an empty cache.            *)
(***************************************************************************)
\* A file of the scenario's size.
ScenarioFile == [i \in 1..ScenarioFileSize |-> ScenarioFileSize]

\* An empty backing directory, the scenario's budgets, and a service that stages and
\* stores nothing.
InitScenario ==
  /\ InitCache
  /\ disk = [k \in FileNames |-> Absent]
  /\ config = [RAMBytesMax |-> ScenarioRAMBytesMax, DiskBytesMax |-> ScenarioDiskBytesMax]
  /\ undeletable = {}
  /\ removeLog = 0
  /\ conf = DefaultConf
  /\ upload = [k \in Keys |-> Absent]
  /\ s3 = [r \in RemoteKeys |-> Absent]

\* The files written so far, and the next one.
Written == Len(lastTouch)

\* The cache starts over the empty directory; the client writes the files in order,
\* each Write succeeding; between two Writes, and after the last one, a tick may
\* start a sweep.
NextScenario ==
  \/ init /\ index' = index /\ Running'
  \/ /\ Quiescent /\ Written < NumScenarioFiles
     /\ WriteCall(1, Written + 1, ScenarioFile)
  \/ Quiescent /\ last.op = "Write" /\ Tick
  \/ \E t \in Threads : WriteGetOrCreate(t)
  \/ \E t \in Threads : WriteLockEntry(t)
  \/ (\E t \in Threads : WriteFile(t)) /\ last'.val # IOError
  \/ \E t \in Threads : WriteInMemory(t)
  \/ \E t \in Threads : WriteStats(t)
  \/ EvictMemoryLock
  \/ EvictMemoryLoop
  \/ EvictMemoryEntry
  \/ EvictDiskLock
  \/ EvictDiskLoop

SpecScenario == InitScenario /\ [][NextScenario]_vars

(***************************************************************************)
(* The byte counters against the index.                                    *)
(***************************************************************************)
Indexed == {k \in FileNames : index[k] # NoEntry}
InMemoryKeys == {k \in Indexed : entries[index[k]].InMemory}
SizeOf == [k \in FileNames |-> IF index[k] = NoEntry THEN 0 ELSE entries[index[k]].Size]
InMemoryBytes == SumOver(InMemoryKeys, SizeOf)
IndexedBytes == SumOver(Indexed, SizeOf)

\* C1: whenever no call and no sweep is in progress, usedMemoryBytes is the sum of
\* Size over the index entries that are InMemory.
C1_UsedMemoryIsInMemorySum == Quiescent => usedMemoryBytes = InMemoryBytes

\* C2: whenever no call and no sweep is in progress, usedDiskBytes is the sum of Size
\* over all entries of the index.
C2_UsedDiskIsIndexedSum == Quiescent => usedDiskBytes = IndexedBytes

(***************************************************************************)
(* Who waits for which lock.                                               *)
(***************************************************************************)
\* The goroutine is at an fc.mutex.Lock() that another goroutine keeps it from passing.
WaitsForCacheMutex(g) ==
  /\ mutex \notin {Free, g}
  /\ pc[g] \in {"R_miss", "R_hit", "W_lock", "W_stats", "EM_lock", "ED_lock"}

\* The goroutine is at the Mutex.Lock() of entry e, which another goroutine holds.
WaitsForEntryMutex(g, e) ==
  /\ entries[e].Mutex \notin {Free, g}
  /\ \/ g \in Threads /\ pc[g] \in {"R_lock", "W_lockEntry"} /\ ent[g] = e
     \/ g = Ticker /\ pc[g] = "EM_lockEntry" /\ index[Back(mruList)] = e

\* A goroutine waits for the cache-wide lock while it holds an entry lock, and the
\* holder of the cache-wide lock waits for that entry lock: neither ever moves again.
Deadlock ==
  \E t \in Threads, e \in EntryIds :
    /\ entries[e].Mutex = t
    /\ WaitsForCacheMutex(t)
    /\ WaitsForEntryMutex(mutex, e)

\* C3: under every interleaving of Read, Write, evictMemory and evictDisk no deadlock
\* between the cache-wide lock and an entry lock is reachable.
C3_NoDeadlock == ~Deadlock

(***************************************************************************)
(* Concurrent readers of one key.                                          *)
(***************************************************************************)
ReadersAt(k, places) == {t \in Threads : key[t] = k /\ pc[t] \in places}
LoadedKeys == {k \in InMemoryKeys : ReadersAt(k, {"R_miss"}) = {}}
DataLen == [k \in FileNames |-> IF k \in InMemoryKeys THEN Len(entries[index[k]].Data) ELSE 0]

\* C4: with Reads only (no Write, no sweep), however many Reads of a key overlap, at
\* most one of them is reading or has just read the backing file; when every indexed
\* key has its file, the disk-read metric counts one disk read per key read so far,
\* every other Read having been a memory hit; usedMemoryBytes holds each loaded key's
\* bytes once; and every Read that succeeds returns the bytes of the backing file.
C4_OneDiskReadAmongReaders ==
  /\ [](/\ \A k \in Keys : Cardinality(ReadersAt(k, {"R_io", "R_miss"})) <= 1
        /\ (\A k \in Indexed : disk[k] # Absent) =>
             cacheReadsDisk =
               Cardinality({k \in Indexed : k \in InMemoryKeys \/ ReadersAt(k, {"R_io"}) # {}})
        /\ \A t \in Threads : pc[t] = "R_hit" => entries[ent[t]].InMemory
        /\ usedMemoryBytes = SumOver(LoadedKeys, DataLen))
  /\ [][\A t \in Threads :
          pc[t] \in {"R_miss", "R_hit"} /\ pc'[t] = "idle" =>
            last'.val = disk[key[t]] /\ last'.val \in Contents]_vars

\* Two Reads of one cold key overlap: one has read the file and holds the entry lock,
\* the other waits for that lock.
C4_Witness ==
  \E t1, t2 \in Threads :
    /\ t1 # t2 /\ key[t1] = key[t2]
    /\ pc[t1] = "R_miss" /\ pc[t2] = "R_lock"
    /\ cacheReadsDisk = 1

\* C5: while a request performs disk I/O on a key (holding its entry lock), no request
\* on another key waits for a lock that is released only after that I/O: it never
\* waits for the cache-wide lock while the holder of the cache-wide lock waits for
\* the entry lock of the key under I/O.
C5_NoCrossKeyBlocking ==
  \A a, b \in Threads :
    (/\ pc[a] \in {"R_io", "W_io"}
     /\ key[b] # 0 /\ key[b] # key[a])
    => ~(WaitsForCacheMutex(b) /\ WaitsForEntryMutex(mutex, ent[a]))

(***************************************************************************)
(* A call and the call right after it, under one client.                   *)
(***************************************************************************)
WriteSucceeded == last.op = "Write" /\ last.val = Ok
ReadSucceeded == last.op = "Read" /\ last.val \in Contents
ReadPlaces == {"R_lock", "R_io", "R_miss", "R_hit"}
\* The Read of the key of the call that returned last is in progress.
ReadingLastKey(t) == pc[t] \in ReadPlaces /\ key[t] = last.key
\* That Read returns in this step.
ReadOfLastKeyReturns == \E t \in Threads : ReadingLastKey(t) /\ pc'[t] = "idle"

\* C6: after Write(k, v) has returned success, whatever the cache held before, the
\* entry of k is InMemory with Size = len(v) and Data = v; the Read(k) that follows
\* with no call or sweep in between takes the memory branch (one more memory hit, no
\* disk read) and returns exactly v.
C6_WriteThenRead ==
  /\ [](WriteSucceeded =>
          /\ Quiescent =>
               /\ last.key \in InMemoryKeys
               /\ entries[index[last.key]].Size = Len(last.arg)
               /\ entries[index[last.key]].Data = last.arg
          /\ \A t \in Threads : ReadingLastKey(t) => pc[t] \in {"R_lock", "R_hit"})
  /\ [][WriteSucceeded =>
          /\ \A t \in Threads :
               ReadingLastKey(t) /\ pc[t] = "R_lock" =>
                 cacheReadsRAM' = cacheReadsRAM + 1 /\ cacheReadsDisk' = cacheReadsDisk
          /\ ReadOfLastKeyReturns => last'.val = last.arg]_vars

\* The Read that follows a successful Write of its key is on the memory branch.
C6_Witness ==
  /\ WriteSucceeded
  /\ \E t \in Threads : ReadingLastKey(t) /\ pc[t] = "R_hit"

\* C7: after a Read(k) has succeeded (by reading the backing file, for a NotLoaded
\* entry), the entry is InMemory with the bytes returned; the Read(k) that follows
\* with no call or sweep in between takes the memory branch (one more memory hit, no
\* disk hit, no disk read), leaves usedMemoryBytes as it is and returns the same bytes.
C7_ReadThenRead ==
  /\ [](ReadSucceeded =>
          /\ Quiescent =>
               /\ last.key \in InMemoryKeys
               /\ entries[index[last.key]].Data = last.val
          /\ \A t \in Threads : ReadingLastKey(t) => pc[t] \in {"R_lock", "R_hit"})
  /\ [][ReadSucceeded =>
          /\ \A t \in Threads :
               ReadingLastKey(t) =>
                 /\ usedMemoryBytes' = usedMemoryBytes
                 /\ cacheReadsDisk' = cacheReadsDisk
                 /\ pc[t] = "R_lock" => cacheReadsRAM' = cacheReadsRAM + 1
          /\ ReadOfLastKeyReturns => last'.val = last.val]_vars

\* The first call was a Read that went to the disk and succeeded; the second call, a
\* Read of the same key, is on the memory branch.
C7_Witness ==
  /\ ReadSucceeded /\ nops = 2
  /\ cacheReadsDisk = 1 /\ cacheReadsRAM = 1
  /\ \E t \in Threads : ReadingLastKey(t) /\ pc[t] = "R_hit"

(***************************************************************************)
(* The sweeps.                                                             *)
(***************************************************************************)
\* evictMemory has just returned: the ticker goroutine is about to call evictDisk.
EvictMemoryReturned == pc[Ticker] = "ED_lock"

\* C8: when an evictMemory sweep that follows completed Reads and Writes returns,
\* usedMemoryBytes is at or below (RAMBytesMax * 90) / 100.
C8_SweepReachesThreshold ==
  EvictMemoryReturned => usedMemoryBytes <= Threshold(RAMBytesMax)

\* The step demotes key k: evictMemory releases its data.
Demotes(k) ==
  /\ pc[Ticker] = "EM_lockEntry"
  /\ k \in InMemoryKeys
  /\ index'[k] = index[k]
  /\ ~entries'[index[k]].InMemory

\* j was touched (by a successful Read or Write) later than k.
TouchedLater(j, k) ==
  /\ IndexOf(lastTouch, j) # 0
  /\ IndexOf(lastTouch, k) # 0
  /\ IndexOf(lastTouch, j) < IndexOf(lastTouch, k)

\* C9: a key that an evictMemory sweep demotes is the back of the recency list, every
\* other key that is InMemory was touched later than it, and usedMemoryBytes is above
\* the threshold when it is demoted.
C9_DemotesLeastRecentlyTouched ==
  [][\A k \in Keys :
       Demotes(k) =>
         /\ k = Back(mruList)
         /\ \A j \in InMemoryKeys \ {k} : TouchedLater(j, k)
         /\ usedMemoryBytes > Threshold(RAMBytesMax)]_vars

\* A sweep has demoted the older of two keys that were in memory and stopped: the
\* other one is still InMemory.
C9_Witness ==
  /\ pc[Ticker] = "EM_loop"
  /\ Len(lastTouch) = 2
  /\ lastTouch[2] \in Indexed \ InMemoryKeys
  /\ lastTouch[1] \in InMemoryKeys
  /\ lastTouch[2] \notin mruMap
  /\ usedMemoryBytes <= Threshold(RAMBytesMax)

\* C10: when an evictDisk sweep has returned, the total size of the indexed files is
\* at or below (DiskBytesMax * 90) / 100.
C10_DiskSweepReachesThreshold ==
  (Quiescent /\ last = Sweep) => IndexedBytes <= Threshold(DiskBytesMax)

(***************************************************************************)
(* Download's chain of tiers, under one client and before any sync cycle.  *)
(***************************************************************************)
Range(s) == {s[i] : i \in DOMAIN s}
\* The call that returned last is a Download, and nothing has started since.
DownloadReturned == Quiescent /\ last.op = "Download"
\* That Download did not find its path in the cache index: it went on to staging.
MissedCache == UploadTier \in Range(last.arg)
\* The error says that the path does not exist (errors.Is(err, os.ErrNotExist)).
NotFound(r) == r \in {ErrNotExist, PathErrNotExist}
\* The entry of k holds data v in memory.
Admitted(k, v) == k \in InMemoryKeys /\ entries[index[k]].Data = v
\* The Download of the key of the call that returned last returns in this step.
DownloadOfLastKeyReturns ==
  \E t \in Threads : pc[t] = "D_return" /\ key[t] = last.key /\ pc'[t] = "idle"

\* C11: a Download whose path is neither in the cache index nor in the staging
\* directory has issued the remote GET when it returns, and when it returns bytes
\* they are the object the bucket holds and they are in the cache.
C11_RemoteFallback ==
  (/\ DownloadReturned /\ MissedCache
   /\ upload[last.key] = Absent
   /\ s3[S3Key(last.key)] # Absent)
  => /\ last.arg = <<CacheTier, UploadTier, S3Tier>>
     /\ last.val \notin Errors =>
          last.val = s3[S3Key(last.key)] /\ Admitted(last.key, last.val)

\* C12: Download returns a not-found error exactly when the cache index, the staging
\* directory and the bucket all lack the path; and once a tier has failed with
\* another error, Download consults no further tier and returns that error.
C12_NotFoundIffAllAbsent ==
  /\ [](DownloadReturned =>
          (NotFound(last.val) <=>
             /\ index[last.key] = NoEntry
             /\ upload[last.key] = Absent
             /\ s3[S3Key(last.key)] = Absent))
  /\ [][\A t \in Threads :
          (pc[t] \in {"D_upload", "D_remote", "D_return"} /\ svc[t].err \in {IOError, S3Error})
          => \/ svc'[t].tiers = svc[t].tiers /\ svc'[t].err = svc[t].err
             \/ pc'[t] = "idle" /\ last'.val = svc[t].err /\ last'.arg = svc[t].tiers]_vars

\* The Download that returned last missed the cache and got its bytes from a lower tier.
DownloadFromLowerTier == last.op = "Download" /\ last.val \notin Errors /\ MissedCache

\* C13: after a Download(k) that missed the cache and succeeded from staging or from
\* the bucket, k is in the cache with the bytes returned; the Download(k) that
\* follows with no sweep in between consults the cache only, returns the same bytes
\* and leaves the staging directory and the bucket alone.
C13_SecondDownloadFromCache ==
  /\ [](DownloadFromLowerTier /\ Quiescent => Admitted(last.key, last.val))
  /\ [][DownloadFromLowerTier =>
          /\ \A t \in Threads :
               (pc[t] \in {"D_upload", "D_remote", "D_return"} /\ key[t] = last.key)
               => svc[t].tiers = <<CacheTier>> /\ UNCHANGED <<upload, s3>>
          /\ DownloadOfLastKeyReturns =>
               last'.arg = <<CacheTier>> /\ last'.val = last.val]_vars

\* The second Download of a key that the first one admitted from staging is about to
\* return from the cache.
C13_Witness ==
  /\ DownloadFromLowerTier
  /\ \E t \in Threads :
       /\ pc[t] = "D_return" /\ key[t] = last.key
       /\ svc[t].tiers = <<CacheTier>> /\ svc[t].err = Ok
       /\ upload[key[t]] = last.val

\* C14: the Download(k) that follows a successful Upload(k, v), with no sync cycle
\* and no other call in between, has not consulted the bucket and, when it returns
\* bytes, returns exactly v, whatever the cache and the staging directory held before.
C14_UploadThenDownload ==
  [][(last.op = "Upload" /\ last.val = Ok /\ DownloadOfLastKeyReturns)
     => /\ S3Tier \notin Range(last'.arg)
        /\ last'.val \notin Errors => last'.val = last.arg]_vars

\* The step belongs to an Upload of goroutine t.
UploadStep(t) == pc'[t] # pc[t] /\ (pc[t] \in {"U_create", "U_copy"} \/ pc'[t] = "U_create")

\* C15: an Upload changes nothing but the staged file at its path: the index, the
\* entries, the recency list, the two counters, the backing directory, the bucket
\* and every other staged file stay as they are; and when it returns success the
\* staged file holds exactly the bytes of the stream.
C15_UploadFrame ==
  [][\A t \in Threads :
       UploadStep(t) =>
         /\ UNCHANGED <<index, mruList, mruMap, usedMemoryBytes, usedDiskBytes, disk, s3>>
         /\ \A k \in Indexed : entries'[index[k]] = entries[index[k]]
         /\ \A k \in Keys \ {key[t], key'[t]} : upload'[k] = upload[k]
         /\ (pc'[t] = "idle" /\ last'.val = Ok) => upload'[key[t]] = last'.arg]_vars

\* An Upload has returned success over a cache that holds a key in memory, and the
\* staged file holds the bytes uploaded.
C15_Witness ==
  /\ Quiescent /\ last.op = "Upload" /\ last.val = Ok
  /\ InMemoryKeys # {}
  /\ upload[last.key] = last.arg

(***************************************************************************)
(* The sync cycle.                                                         *)
(***************************************************************************)
\* A cycle has ended and nothing has returned since.
CycleEnded == syncPc = "sleep" /\ last.op = "sync"
\* The files whose PUT the cycle issued and saw fail.
FailedPuts == {k \in attempted : put[k] = Absent}
\* The step is one of the sync worker's cycle.
SyncStep == syncPc' # syncPc \/ srcIdx' # srcIdx

\* C16: when a cycle ends (no Upload having run), every file whose PUT succeeded in
\* the cycle is in the serving directory under its name with the content that was
\* PUT, and is no longer staged.
C16_SyncedFileIsServed ==
  (CycleEnded /\ nops = 0)
  => \A k \in Keys : put[k] # Absent => disk[k] = put[k] /\ upload[k] = Absent

\* C17: a step of the sync cycle changes a staged file only by removing it, and only
\* after the PUT of that file succeeded in the same cycle; a file whose PUT failed
\* is still staged.
C17_RemovesOnlyAfterPut ==
  /\ [][\A k \in Keys :
          (SyncStep /\ upload'[k] # upload[k]) => upload'[k] = Absent /\ put[k] # Absent]_vars
  /\ [](\A k \in FailedPuts : upload[k] # Absent)

\* A cycle over two staged files has ended with an error: the first file was PUT and
\* removed, the PUT of the second failed and the file is still staged.
C17_Witness ==
  /\ CycleEnded /\ last.val = IOError
  /\ \E j, k \in Keys :
       /\ put[j] # Absent /\ upload[j] = Absent
       /\ k \in FailedPuts /\ upload[k] \in Contents

\* C18: when a cycle in which the PUT of a file failed ends, the PUT of every file
\* the cycle listed has been issued.
C18_CycleGoesOnAfterFailure ==
  (CycleEnded /\ FailedPuts # {}) => Range(srcPaths) \subseteq attempted

\* C19: once the service has started, with a worker that keeps running and PUTs
\* that fail only finitely often, every staged file is eventually PUT successfully.
C19_EventuallyPut ==
  \A k \in Keys : (Running /\ upload[k] # Absent) ~> (put[k] # Absent)

(***************************************************************************)
(* The scenario of five 300-byte files, budgets 1024 and 4096.             *)
(***************************************************************************)
\* C20: with RAMBytesMax = 1024 and DiskBytesMax = 4096 on an empty cache and the
\* files k1..k5 of 300 bytes written in that order, wherever the sweeps fall: the
\* first key a sweep demotes is k1; when evictMemory returns usedMemoryBytes is at
\* most 921; a sweep after the fifth Write leaves k1 demoted; and no sweep removes a
\* backing file or an index entry.
C20_Scenario ==
  /\ [](EvictMemoryReturned => usedMemoryBytes <= 921)
  /\ []((Quiescent /\ last = Sweep /\ Written = NumScenarioFiles) => 1 \in Indexed \ InMemoryKeys)
  /\ [][/\ \A k \in FileNames : (Demotes(k) /\ Indexed \subseteq InMemoryKeys) => k = 1
        /\ \A k \in FileNames : index[k] # NoEntry => index'[k] = index[k]
        /\ \A k \in FileNames : disk[k] # Absent => disk'[k] = disk[k]]_vars

\* All five files are written and the sweep that followed has returned: k1 and k2
\* are demoted, the other three are in memory with 900 bytes counted, and all five
\* are indexed with their backing files.
C20_Witness ==
  /\ Quiescent /\ last = Sweep /\ Written = 5
  /\ InMemoryKeys = {3, 4, 5} /\ Indexed = 1..5
  /\ usedMemoryBytes = 900
  /\ \A k \in 1..5 : Len(disk[k]) = 300

(***************************************************************************)
(* What a memory demotion leaves behind.                                   *)
(***************************************************************************)
\* C21: a step of evictMemory that demotes a key leaves the key's index entry, its
\* backing file and its element in the recency list where they are; and a key leaves
\* the recency list only in a step that evicts it from disk.
C21_DemotionKeepsNode ==
  [][\A k \in Keys :
       /\ Demotes(k) =>
            /\ index'[k] = index[k]
            /\ disk'[k] = disk[k]
            /\ k \in mruMap' /\ IndexOf(mruList', k) # 0
       /\ (k \in mruMap /\ k \notin mruMap') => pc[Ticker] = "ED_loop"]_vars

(***************************************************************************)
(* The bucket's key namespace.                                             *)
(***************************************************************************)
\* C22: what a sync cycle has PUT for the file staged under path p is the object that
\* Download(p) asks the bucket for: it is stored under the key of Download's GET.
C22_SameRemoteKey ==
  \A p \in Keys : put[p] # Absent => s3[S3Key(p)] = put[p]

(***************************************************************************)
(* A Read whose backing file cannot be read.                               *)
(***************************************************************************)
\* The Read of goroutine t takes a step at place.
ReadStepAt(t, place) == pc[t] = place /\ pc'[t] # place /\ svc[t].op = "none"
\* The step leaves the entry the Read holds not loaded and without data, with its
\* size, and leaves the memory counter and the recency list alone.
LeavesNotLoaded(t) ==
  /\ ~entries'[ent[t]].InMemory
  /\ entries'[ent[t]].Data = NoData
  /\ index'[key[t]] = ent[t] => entries'[ent[t]].Size = entries[ent[t]].Size
  /\ UNCHANGED <<usedMemoryBytes, mruList, mruMap, lastTouch, index, disk>>

\* C23: a Read that finds an indexed entry that is not in memory and cannot read the
\* backing file returns an I/O error, not os.ErrNotExist, and neither of its steps
\* changes the entry, usedMemoryBytes or the recency list.
C23_FailedReadLeavesEntry ==
  [][\A t \in Threads :
       /\ (ReadStepAt(t, "R_lock") /\ ~entries[ent[t]].InMemory) =>
            pc'[t] = "R_io" /\ LeavesNotLoaded(t)
       /\ (ReadStepAt(t, "R_io") /\ disk[key[t]] = Absent) =>
            /\ pc'[t] = "idle"
            /\ last' = [ReadOf(key[t]) EXCEPT !.val = IOError]
            /\ last'.val # ErrNotExist
            /\ LeavesNotLoaded(t)]_vars

\* A Read of a key that is indexed and not in memory has returned the I/O error.
C23_Witness ==
  /\ last.op = "Read" /\ last.val = IOError
  /\ last.key \in Indexed \ InMemoryKeys
  /\ disk[last.key] = Absent

(***************************************************************************)
(* The sweeps terminate.                                                   *)
(***************************************************************************)
\* The ticker goroutine is inside evictMemory or evictDisk.
Sweeping == pc[Ticker] \in {"EM_lock", "EM_loop", "EM_lockEntry", "ED_lock", "ED_loop"}

\* C24: every sweep that has started returns with fc.mutex released, also when the
\* file of the key it is evicting cannot be removed.
C24_SweepTerminates == Sweeping ~> (pc[Ticker] = "idle" /\ mutex # Ticker)

(***************************************************************************)
(* fc.mutex and disk I/O.                                                  *)
(***************************************************************************)
\* Goroutine g is at a call that reads, writes, stats or removes a backing file.
AtDiskIO(g) ==
  \/ g \in Threads /\ pc[g] \in {"R_io", "W_io"}
  \/ g = Ticker /\ pc[g] = "ED_loop" /\ EvictDiskGoesOn

\* Goroutine g is at the Mutex.Lock() of an entry whose holder is at disk I/O.
WaitsForDiskIO(g) ==
  \E e \in EntryIds :
    /\ WaitsForEntryMutex(g, e)
    /\ entries[e].Mutex \in Threads /\ AtDiskIO(entries[e].Mutex)

\* C25: the goroutine that holds fc.mutex is neither at disk I/O nor waiting for an
\* entry lock whose holder is at disk I/O.
C25_NoDiskIOUnderCacheLock ==
  \A g \in Threads \cup {Ticker} : mutex = g => ~AtDiskIO(g) /\ ~WaitsForDiskIO(g)

(***************************************************************************)
(* The entry lock and the key's backing file.                              *)
(***************************************************************************)
\* Goroutine t is inside the locked part of a Read or a Write of key k.
HoldsEntryOf(t, k) == key[t] = k /\ ent[t] # NoEntry /\ entries[ent[t]].Mutex = t

\* The step is evictDisk's eviction of key k: its file and its index entry go, and k
\* leaves the recency list (which only the holder of fc.mutex changes).
EvictsFromDisk(k) ==
  /\ pc[Ticker] = "ED_loop"
  /\ k \in mruMap /\ k \notin mruMap'

\* C26: evictDisk removes the backing file and the index entry of a key only while no
\* Read or Write of that key holds the key's entry lock; with the Reads, Writes and
\* demotions all done under the entry lock, no two of them are in progress at once.
C26_EntryLockGuardsKey ==
  [][\A k \in Keys : EvictsFromDisk(k) => \A t \in Threads : ~HoldsEntryOf(t, k)]_vars

(***************************************************************************)
(* An entry's Size and its authoritative content.                          *)
(***************************************************************************)
\* The size of the content that is authoritative for key k: the data in memory when
\* the entry is InMemory, the backing file otherwise.
AuthoritativeSize(k) ==
  IF entries[index[k]].InMemory THEN Len(entries[index[k]].Data) ELSE Len(disk[k])

\* C27: whenever no call and no sweep is in progress, the Size of every index entry
\* is the length of its Data when it is InMemory and the size of its backing file,
\* when there is one, otherwise.
C27_SizeIsAuthoritative ==
  (Running /\ Quiescent) =>
    \A k \in Indexed :
      (entries[index[k]].InMemory \/ disk[k] # Absent) =>
        entries[index[k]].Size = AuthoritativeSize(k)

(***************************************************************************)
(* An Upload that overwrites a file the sync cycle is processing.          *)
(***************************************************************************)
\* The step removes the staged file p, which holds a whole uploaded content, in a
\* cycle that has PUT a whole uploaded content of p.
RemovesStaged(p) ==
  /\ syncPc = "remove" /\ put[p] \in Contents
  /\ upload[p] \in Contents /\ upload'[p] = Absent

\* C28: the content a sync cycle removes from the staging directory is the content it
\* has PUT: what an Upload wrote over the file after the PUT is not removed with it.
C28_OverwriteNotLost ==
  [][\A p \in Keys : RemovesStaged(p) => put[p] = upload[p]]_vars

(***************************************************************************)
(* The signs of the byte counters.                                         *)
(***************************************************************************)
\* C29: usedMemoryBytes and usedDiskBytes are never negative.
C29_CountersNotNegative == usedMemoryBytes >= 0 /\ usedDiskBytes >= 0

(***************************************************************************)
(* The recency list and the index.                                         *)
(***************************************************************************)
\* C30: whenever no call and no sweep is in progress, every key of the recency list
\* and of its map has an index entry: no Read or Write that returns after evictDisk
\* removed its key leaves the key in the list.
C30_ListedKeysAreIndexed ==
  (Running /\ Quiescent) =>
    \A k \in FileNames : (k \in mruMap \/ IndexOf(mruList, k) # 0) => k \in Indexed

(***************************************************************************)
(* A Write that fails.                                                     *)
(***************************************************************************)
\* The entry that the Write of goroutine t holds is the one it created and stored in
\* the index for a key that had none: &fileCacheEntry{}, locked by t.
CreatedByWrite(t) ==
  /\ index[key[t]] = ent[t]
  /\ entries[ent[t]] = [ZeroEntry EXCEPT !.Mutex = t]

\* The Write of goroutine t returns an error in this step.
WriteFails(t) ==
  /\ pc[t] = "W_io" /\ pc'[t] = "idle" /\ svc[t].op = "none"
  /\ last' = [WriteOf(key[t], in[t]) EXCEPT !.val = IOError]

\* C31: a Write that returns an error leaves the counters, the recency list and the
\* backing directory as they are, and leaves no index entry for a key that had none
\* when it was called.
C31_FailedWriteLeavesNoEntry ==
  [][\A t \in Threads :
       WriteFails(t) =>
         /\ UNCHANGED <<usedMemoryBytes, usedDiskBytes, mruList, mruMap, disk>>
         /\ CreatedByWrite(t) => index'[key[t]] = NoEntry]_vars

====
